---- MODULE Spec2Model ----
(***************************************************************************)
(* phraseport: passcode-protected text/file sharing.                       *)
(* The model covers the two server programs of the repository:             *)
(*   backend = "file" : src/src/server.js  (items kept in db.json)         *)
(*   backend = "pg"   : src/unnamed/part_000 (items kept in a table)       *)
(* The store content is the sequence db; every handler is one action per   *)
(* event-loop turn: a handler runs without interruption up to its next     *)
(* await, and other handlers run while it is suspended there.              *)
(***************************************************************************)
EXTENDS Naturals, Sequences, FiniteSets, TLC

VARIABLES
  backend,    \* which server program runs: "file" or "pg"
  db,         \* the persisted items, in insertion order
  storeUp,    \* TRUE while the data file / database can be accessed
  mig,        \* the startup migration: its position and local variables
  host,       \* host[r]: the r-th POST /api/host request, position and locals
  accessLog,  \* morgan's access log: the hosting requests whose issued
              \* keyphrase and passcode a logged request line carries
  runs,       \* number of process starts so far
  dbBoot,     \* the store content when the current process started
  prevRun,    \* the previous process: its migration record and the store it left
  debug,      \* the POST /debug/insert-test request of part_000: its position
  checkedWith \* the passcodes not of the form ^\d{4}$ that a handler has passed
              \* to getAuthorizedItems or verifyPasscode

vars == <<backend, db, storeUp, mig, host, accessLog, runs, dbBoot, prevRun,
         debug, checkedWith>>

----------------------------------------------------------------------------
(* Bounds of the model *)

MaxRequests == 2    \* POST /api/host requests in one run
MaxStored == 2      \* items already in the store at startup
MaxRuns == 2        \* process starts (each runs the startup migration)

Requests == 1..MaxRequests

----------------------------------------------------------------------------
(* Configuration and JavaScript values *)

\* process.env.NODE_ENV of the deployed service
NODE_ENV == "production"

Undefined == "<undefined>"

\* JS truthiness of a value that is a string or undefined
Truthy(v) == v # Undefined /\ v # ""

\* an absent / null passcodeHash
NoHash == <<>>

\* String.prototype.padStart
RECURSIVE padStart(_, _, _)
padStart(s, n, c) == IF Len(s) >= n THEN s ELSE padStart(c \o s, n, c)

----------------------------------------------------------------------------
(* Passcode Hasher: bcrypt *)

\* bcrypt.hash(data, rounds): the hash string embeds a fresh random salt
bcryptHash(pw, salt) == <<"$2b$", salt, pw>>

\* the format of a bcrypt hash string: version prefix, salt, digest
wellFormedHash(h) == Len(h) = 3 /\ h[1] = "$2b$"

\* a stored passcodeHash that is not a bcrypt hash string
MalformedHash == <<"not-a-bcrypt-hash">>

\* bcrypt.compare(data, hash)
bcryptCompare(pw, h) == Len(h) = 3 /\ h[1] = "$2b$" /\ h[3] = pw

----------------------------------------------------------------------------
(* Items *)

Item(id, kp, fname, h, plain) ==
  [id |-> id, keyphrase |-> kp,
   type |-> IF fname # Undefined THEN "file" ELSE "text",
   filename |-> fname, passcodeHash |-> h, passcode |-> plain]

Ids(items) == {items[n].id : n \in 1..Len(items)}

----------------------------------------------------------------------------
(* Inputs: bounded samples of what callers and the random sources supply *)

\* outcomes of crypto.randomInt(0, 10000)
RandomInts == {42, 1111}

\* outcomes of the three Math.floor(Math.random() * words.length) draws
RandomPicks == {<<0, 1, 2>>}

\* req.body.keyphrase of a hosting request
SuppliedKeyphrases == {Undefined, "   ", " Apple-River-Sun "}

\* req.file.originalname of a hosting request (Undefined: no file part)
Uploads == {Undefined, "photo.png"}

\* keyphrase / passcode query parameters and :id of the credentialed GETs
ReqKeyphrases == {Undefined, "apple-river-sun", "Apple-River-Sun"}
ReqPasscodes == {Undefined, "0042", "1111"}
ReqIds == {"i1", "i2", "u1", "nope"}

\* the :id and the query strings of the requests the service receives
SentIds == {"u1", "nope"}
SentCredentials ==
  {<<Undefined, "0042">>, <<"apple-river-sun", "0042">>,
   <<"apple-river-sun", "1111">>, <<"Apple-River-Sun", "1111">>}

\* the same with a passcode that a client other than the web page sends
AnyCredentials == SentCredentials \cup {<<"apple-river-sun", "42">>}

\* keyphrases and passcodes of the items found in the store at startup
StoredKeyphrases == {"apple-river-sun"}
StoredPasscodes == {"0042"}
AnyKeyphrases == {"apple-river-sun", "Apple-River-Sun"}
AnyPasscodes == {"0042", "1111"}

----------------------------------------------------------------------------
(* Keyphrase Generator *)

words == <<"apple", "river", "sun", "moon", "blue", "green", "cloud", "stone",
           "forest", "star", "sky", "leaf", "fox", "lake", "wind">>

\* pick(): words[Math.floor(Math.random() * words.length)], 0-based index
pick(n) == words[n + 1]

generateKeyphrase(picks) ==
  pick(picks[1]) \o "-" \o pick(picks[2]) \o "-" \o pick(picks[3])

\* String.prototype.trim on the supplied keyphrases
trim(s) ==
  CASE s = "   " -> ""
    [] s = " Apple-River-Sun " -> "Apple-River-Sun"
    [] OTHER -> s

\* req.body.keyphrase && req.body.keyphrase.trim()
providedKey(supplied) == IF Truthy(supplied) THEN trim(supplied) ELSE supplied

\* a choice that takes the supplied keyphrase as it is
chooseKeyphraseVerbatim(supplied, picks) ==
  IF Truthy(supplied) THEN supplied ELSE generateKeyphrase(picks)

\* providedKey || generateKeyphrase()
chooseKeyphrase(supplied, picks) ==
  IF Truthy(providedKey(supplied)) THEN providedKey(supplied)
  ELSE generateKeyphrase(picks)

\* crypto.randomInt(0, 10000).toString().padStart(4, '0')
generatePasscode(n) == padStart(ToString(n), 4, "0")

\* the exclusive upper limit of crypto.randomInt(0, 10000)
PasscodeCount == 10000

\* the strings that match /^\d{4}$/: the passcodes generatePasscode produces
FourDigitStrings == {generatePasscode(n) : n \in 0..(PasscodeCount - 1)}

\* uuidv4() of the r-th hosting request: fresh, never equal to another id
uuid(r) == "u" \o ToString(r)

----------------------------------------------------------------------------
(* Credential Store *)

\* readDB of server.js: a read or parse error yields an empty item list
readDB == IF storeUp THEN db ELSE <<>>

\* String(v)
String(v) == IF v = Undefined THEN "undefined" ELSE v

NoItem == Item(Undefined, Undefined, Undefined, NoHash, Undefined)

\* a check that accepts the passcode when either credential of the item
\* matches it
verifyPasscodeEither(item, passcodePlain) ==
  IF item = NoItem THEN FALSE
  ELSE \/ item.passcodeHash # NoHash
          /\ bcryptCompare(String(passcodePlain), item.passcodeHash)
       \/ Truthy(item.passcode)
          /\ String(passcodePlain) = String(item.passcode)

\* the catch around bcrypt.compare returns false when it throws on the stored
\* hash; bcryptCompare is false on a hash that is not well formed
verifyPasscode(item, passcodePlain) ==
  IF item = NoItem THEN FALSE
  ELSE IF item.passcodeHash # NoHash
       THEN bcryptCompare(String(passcodePlain), item.passcodeHash)
       ELSE IF Truthy(item.passcode)
            THEN String(passcodePlain) = String(item.passcode)
            ELSE FALSE

RECURSIVE Reverse(_)
Reverse(s) == IF s = <<>> THEN <<>> ELSE Append(Reverse(Tail(s)), Head(s))

\* findItemsByKeyphrase of part_000: ... WHERE keyphrase = $1 ORDER BY createdat DESC
findItemsByKeyphrase(rows, keyphrase) ==
  LET match(it) == it.keyphrase = keyphrase
  IN Reverse(SelectSeq(rows, match))

\* String.prototype.toLowerCase on the keyphrases
toLowerCase(s) == IF s = "Apple-River-Sun" THEN "apple-river-sun" ELSE s

\* a filter that compares the keyphrases without regard to case
candidatesOfAnyCase(items, keyphrase) ==
  LET match(it) == toLowerCase(it.keyphrase) = toLowerCase(keyphrase)
  IN SelectSeq(items, match)

\* db.items.filter(it => it.keyphrase === keyphrase) of server.js
candidatesOf(items, keyphrase) ==
  LET match(it) == it.keyphrase = keyphrase
  IN SelectSeq(items, match)

\* a loop in which a bcrypt.compare that throws on a stored hash ends the
\* whole authorization without a result
verifiedUncaught(candidates, passcode) ==
  LET throws(it) == it.passcodeHash # NoHash /\ ~wellFormedHash(it.passcodeHash)
      accepted(it) == verifyPasscode(it, passcode)
  IN IF SelectSeq(candidates, throws) # <<>> THEN <<>>
     ELSE SelectSeq(candidates, accepted)

\* the loop of getAuthorizedItems: keep the candidates whose passcode verifies
RECURSIVE verified(_, _)
verified(candidates, passcode) ==
  IF candidates = <<>> THEN <<>>
  ELSE (IF verifyPasscode(Head(candidates), passcode)
        THEN <<Head(candidates)>> ELSE <<>>)
       \o verified(Tail(candidates), passcode)

\* getAuthorizedItems on the items (rows) the store holds
authorizedIn(items, keyphrase, passcode) ==
  IF backend = "file"
  THEN verified(candidatesOf(items, keyphrase), passcode)
  ELSE verified(findItemsByKeyphrase(items, keyphrase), passcode)

getAuthorizedItems(keyphrase, passcode) ==
  authorizedIn(IF backend = "file" THEN readDB ELSE db, keyphrase, passcode)

----------------------------------------------------------------------------
(* The store and the process environment *)

\* the data file / database becomes unreachable, and reachable again
StoreFault ==
  /\ storeUp
  /\ storeUp' = FALSE
  /\ UNCHANGED <<backend, db, mig, host, accessLog, runs, dbBoot, prevRun, debug, checkedWith>>

StoreRecover ==
  /\ ~storeUp
  /\ storeUp' = TRUE
  /\ UNCHANGED <<backend, db, mig, host, accessLog, runs, dbBoot, prevRun, debug, checkedWith>>

----------------------------------------------------------------------------
(* Legacy Migration: migratePlainPasscodes of server.js *)

\* a test that looks at the plaintext field only
needsHashAnyPlain(it) == Truthy(it.passcode)

\* it.passcode && !it.passcodeHash
needsHash(it) == Truthy(it.passcode) /\ it.passcodeHash = NoHash

\* the for loop, resumed after item i: the next item it awaits a hash for,
\* or 0 when it runs to the end of db.items
nextLegacy(items, i) ==
  IF \E n \in (i + 1)..Len(items) : needsHash(items[n])
  THEN CHOOSE n \in (i + 1)..Len(items) :
         /\ needsHash(items[n])
         /\ \A m \in (i + 1)..(n - 1) : ~needsHash(items[m])
  ELSE 0

\* an update that leaves the plaintext field in the record
hashedKeepingPlain(it, hash) == [it EXCEPT !.passcodeHash = hash]

\* it.passcodeHash = hash; delete it.passcode
hashed(it, hash) == [it EXCEPT !.passcodeHash = hash, !.passcode = Undefined]

\* failed: the ids of the items whose hashing failed (logged at line 81)
MigIdle == [pc |-> "boot", db |-> <<>>, i |-> 0, changed |-> FALSE, failed |-> {}]

\* module load: the migration runs up to its first await (lines 71-76),
\* or to its end when no item needs a hash (changed is false: no write)
MigStart ==
  /\ mig.pc = "boot"
  /\ backend = "file"
  /\ LET items == readDB
         n == nextLegacy(items, 0)
     IN mig' = IF n = 0
               THEN [MigIdle EXCEPT !.pc = "done"]
               ELSE [MigIdle EXCEPT !.pc = "hashing", !.db = items, !.i = n]
  /\ UNCHANGED <<backend, db, storeUp, host, accessLog, runs, dbBoot, prevRun, debug, checkedWith>>

\* the salt bcrypt draws is fresh for every call
migSalt == "m" \o ToString(runs)

\* a loop without the try/catch: a rejected bcrypt.hash ends the migration
\* before `if (changed) writeDB(db)`
MigStepAborting(ok) ==
  LET it == mig.db[mig.i]
      items == [mig.db EXCEPT ![mig.i] = hashed(it, bcryptHash(String(it.passcode), migSalt))]
      n == nextLegacy(items, mig.i)
  IN IF ~ok
     THEN /\ mig' = [mig EXCEPT !.pc = "done", !.db = <<>>, !.i = 0,
                                !.failed = mig.failed \cup {it.id}]
          /\ db' = db
     ELSE IF n # 0
          THEN /\ mig' = [mig EXCEPT !.db = items, !.i = n, !.changed = TRUE]
               /\ db' = db
          ELSE /\ mig' = [mig EXCEPT !.pc = "done", !.db = <<>>, !.i = 0, !.changed = TRUE]
               /\ db' = IF storeUp THEN items ELSE db

\* the loop body after the awaited bcrypt.hash settles (lines 77-82), the rest
\* of the loop up to the next await, and `if (changed) writeDB(db)` at its end
MigStep(ok) ==
  LET it == mig.db[mig.i]
      items == IF ok
               THEN [mig.db EXCEPT ![mig.i] = hashed(it, bcryptHash(String(it.passcode), migSalt))]
               ELSE mig.db
      changed == mig.changed \/ ok
      failed == IF ok THEN mig.failed ELSE mig.failed \cup {it.id}
      n == nextLegacy(items, mig.i)
  IN IF n # 0
     THEN /\ mig' = [mig EXCEPT !.db = items, !.i = n, !.changed = changed, !.failed = failed]
          /\ db' = db
     ELSE /\ mig' = [mig EXCEPT !.pc = "done", !.db = <<>>, !.i = 0,
                                !.changed = changed, !.failed = failed]
          \* writeDB throws when the file cannot be written: the startup
          \* IIFE logs 'migration error' and the store keeps its content
          /\ db' = IF changed /\ storeUp THEN items ELSE db

\* bcrypt.hash resolves
MigHashDone ==
  /\ mig.pc = "hashing"
  /\ MigStep(TRUE)
  /\ UNCHANGED <<backend, storeUp, host, accessLog, runs, dbBoot, prevRun, debug, checkedWith>>

\* bcrypt.hash rejects: the catch at line 80
MigHashFail ==
  /\ mig.pc = "hashing"
  /\ MigStep(FALSE)
  /\ UNCHANGED <<backend, storeUp, host, accessLog, runs, dbBoot, prevRun, debug, checkedWith>>

----------------------------------------------------------------------------
(* createItem: app.post('/api/host') *)

HostResponse(status, id, kp, pass, error, detail) ==
  [status |-> status, success |-> status = 200, id |-> id, keyphrase |-> kp,
   passcode |-> pass, shareUrl |-> IF status = 200 THEN <<kp, pass>> ELSE <<>>,
   error |-> error, detail |-> detail]

NoResponse == HostResponse(0, Undefined, Undefined, Undefined, Undefined, FALSE)

HostSuccess(h) == HostResponse(200, h.id, h.keyphrase, h.passcode, Undefined, FALSE)

\* res.status(500).json({ error }), in part_000 with detail and stack of the
\* error unless NODE_ENV is production
HostFailure(error) ==
  HostResponse(500, Undefined, Undefined, Undefined, error,
               backend = "pg" /\ NODE_ENV # "production")

\* a request's locals; outcome records how the handler ended
HostIdle == [pc |-> "idle", db |-> <<>>, readOk |-> TRUE, id |-> Undefined,
             supplied |-> Undefined, keyphrase |-> Undefined, passcode |-> Undefined, upload |-> Undefined,
             passcodeHash |-> NoHash, outcome |-> "", res |-> NoResponse]

\* the hosting requests that reported success with this keyphrase and passcode
issued(kp, pass) ==
  {r \in Requests : /\ host[r].res.success
                    /\ host[r].res.keyphrase = kp
                    /\ host[r].res.passcode = pass}

\* app.use(morgan('combined')) unless NODE_ENV is test: once the response res
\* is sent, the line of the request holds its URL, with the keyphrase and
\* passcode of its query string
morgan(kp, pass, res) ==
  IF NODE_ENV # "test" /\ res.status # 0 THEN accessLog \cup issued(kp, pass)
  ELSE accessLog

\* the handler up to `await bcrypt.hash(passcode, SALT_ROUNDS)`
HostStart(r) ==
  /\ mig.pc # "boot"
  /\ host[r].pc = "idle"
  /\ \A q \in 1..(r - 1) : host[q].pc # "idle"
  /\ \E supplied \in SuppliedKeyphrases, upload \in Uploads,
        picks \in RandomPicks, n \in RandomInts :
       host' = [host EXCEPT ![r] =
                  [HostIdle EXCEPT
                     !.pc = "hashing",
                     !.db = IF backend = "file" THEN readDB ELSE <<>>,
                     !.readOk = (backend = "pg" \/ storeUp),
                     !.id = uuid(r),
                     !.supplied = supplied,
                     !.keyphrase = chooseKeyphrase(supplied, picks),
                     !.passcode = generatePasscode(n),
                     !.upload = upload]]
  /\ UNCHANGED <<backend, db, storeUp, mig, accessLog, runs, dbBoot, prevRun, debug, checkedWith>>

\* the item object built at lines 145-155
newItem(h, hash) == Item(h.id, h.keyphrase, h.upload, hash, Undefined)

Finish(r, outcome, res) ==
  host' = [host EXCEPT ![r] = [@ EXCEPT !.pc = "done", !.db = <<>>, !.readOk = TRUE,
                                        !.supplied = Undefined,
                                        !.upload = Undefined, !.passcodeHash = NoHash,
                                        !.outcome = outcome, !.res = res]]

\* a handler that reports success although writeDB threw
HostHashDoneFileIgnoringWrite(r, ok) ==
  LET h == host[r]
      items == Append(h.db, newItem(h, bcryptHash(h.passcode, uuid(r))))
  IN IF ~ok
     THEN Finish(r, "hash-failed", HostFailure("failed to host item")) /\ db' = db
     ELSE IF ~storeUp
          THEN Finish(r, "insert-failed", HostSuccess(h)) /\ db' = db
          ELSE Finish(r, "created", HostSuccess(h)) /\ db' = items

\* a handler that stores the item without a hash when bcrypt.hash rejects
HostHashDoneFileIgnoringHash(r, ok) ==
  LET h == host[r]
      hash == IF ok THEN bcryptHash(h.passcode, uuid(r)) ELSE NoHash
      items == Append(h.db, newItem(h, hash))
  IN IF ~storeUp
     THEN Finish(r, "insert-failed", HostFailure("failed to host item")) /\ db' = db
     ELSE IF ~ok
          THEN Finish(r, "hash-failed", HostFailure("failed to host item")) /\ db' = items
          ELSE Finish(r, "created", HostSuccess(h)) /\ db' = items

\* server.js after the hash settles: push, writeDB, respond; any throw is
\* caught at line 164
HostHashDoneFile(r, ok) ==
  LET h == host[r]
      items == Append(h.db, newItem(h, bcryptHash(h.passcode, uuid(r))))
  IN IF ~ok
     THEN Finish(r, "hash-failed", HostFailure("failed to host item")) /\ db' = db
     ELSE IF ~storeUp
          THEN Finish(r, "insert-failed", HostFailure("failed to host item")) /\ db' = db
          ELSE Finish(r, "created", HostSuccess(h)) /\ db' = items

\* part_000 after the hash settles: the S3 upload of a file part, then
\* `await insertItemToDb(item)`
HostHashDonePg(r, ok, s3ok) ==
  LET h == host[r]
  IN /\ db' = db
     /\ IF ~ok
        THEN Finish(r, "hash-failed", HostFailure("failed to host item"))
        ELSE IF h.upload # Undefined /\ ~s3ok
             THEN Finish(r, "upload-failed", HostFailure("failed to upload file to S3"))
             ELSE host' = [host EXCEPT ![r] =
                             [@ EXCEPT !.pc = "inserting",
                                       !.passcodeHash = bcryptHash(h.passcode, uuid(r))]]

HostHashDone(r) ==
  /\ host[r].pc = "hashing"
  /\ \E ok \in BOOLEAN, s3ok \in BOOLEAN :
       IF backend = "file" THEN HostHashDoneFile(r, ok) ELSE HostHashDonePg(r, ok, s3ok)
  /\ UNCHANGED <<backend, storeUp, mig, accessLog, runs, dbBoot, prevRun, debug, checkedWith>>

\* part_000: insertItemToDb settles; the INSERT adds one row to the table
HostInsertDone(r) ==
  /\ host[r].pc = "inserting"
  /\ LET h == host[r]
     IN IF storeUp
        THEN /\ db' = Append(db, newItem(h, h.passcodeHash))
             /\ Finish(r, "created", HostSuccess(h))
        ELSE /\ db' = db
             /\ Finish(r, "insert-failed", HostFailure("failed to write item to DB"))
  /\ UNCHANGED <<backend, storeUp, mig, accessLog, runs, dbBoot, prevRun, debug, checkedWith>>

----------------------------------------------------------------------------
(* The credentialed read endpoints *)

GetResponse(status, error, items) == [status |-> status, error |-> error, items |-> items]

\* an async handler whose awaited query rejects: nothing is sent
Rejected == GetResponse(0, "unhandled rejection", <<>>)

\* what a response discloses of an item; url holds the credentials that the
\* previewUrl / downloadUrl of the body embeds (empty: no such URL)
Disclosed(it, part, url) == [id |-> it.id, part |-> part, url |-> url]

\* path.extname(it.filename).toLowerCase()
extname(f) == CASE f = "photo.png" -> ".png" [] OTHER -> ""

PreviewExts == {".png", ".jpg", ".jpeg", ".gif", ".webp", ".bmp",
                ".mp4", ".webm", ".ogg", ".mov", ".mp3", ".wav", ".m4a"}

\* matches.map(it => ...) of /api/items
RECURSIVE listing(_, _, _)
listing(matches, keyphrase, passcode) ==
  IF matches = <<>> THEN <<>>
  ELSE LET it == Head(matches)
           url == IF it.type = "file" /\ Truthy(it.filename)
                     /\ extname(it.filename) \in PreviewExts
                  THEN <<keyphrase, passcode>> ELSE <<>>
       IN <<Disclosed(it, "listing", url)>> \o listing(Tail(matches), keyphrase, passcode)

\* app.get('/api/items')
ItemsResponse(keyphrase, passcode) ==
  IF ~Truthy(keyphrase) \/ ~Truthy(passcode)
  THEN GetResponse(400, "keyphrase and passcode required", <<>>)
  ELSE IF backend = "pg" /\ ~storeUp
       THEN Rejected
       ELSE GetResponse(200, Undefined,
                        listing(getAuthorizedItems(keyphrase, passcode), keyphrase, passcode))

\* a lookup by id alone
findItemById(id, keyphrase) ==
  LET match(x) == x.id = id
      found == SelectSeq(IF backend = "file" THEN readDB ELSE db, match)
  IN IF found = <<>> THEN NoItem ELSE Head(found)

\* db.items.find(x => x.id === id && x.keyphrase === keyphrase) of server.js;
\* getItemById and the `it.keyphrase !== keyphrase` test of part_000
findItem(id, keyphrase) ==
  LET match(x) == x.id = id /\ x.keyphrase = keyphrase
      found == SelectSeq(IF backend = "file" THEN readDB ELSE db, match)
  IN IF found = <<>> THEN NoItem ELSE Head(found)

\* a handler that answers a failed passcode check with a message of its own
ItemResponseNamingPasscode(id, keyphrase, passcode) ==
  IF ~Truthy(keyphrase) \/ ~Truthy(passcode)
  THEN GetResponse(400, "keyphrase and passcode required", <<>>)
  ELSE IF backend = "pg" /\ ~storeUp
       THEN Rejected
       ELSE LET it == findItem(id, keyphrase)
            IN IF it = NoItem
               THEN GetResponse(404, "not found", <<>>)
               ELSE IF ~verifyPasscode(it, passcode)
                    THEN GetResponse(401, "invalid passcode", <<>>)
                    ELSE GetResponse(200, Undefined,
                           <<Disclosed(it, "content",
                                       IF it.type = "file" THEN <<keyphrase, passcode>>
                                       ELSE <<>>)>>)

\* app.get('/api/item/:id')
ItemResponse(id, keyphrase, passcode) ==
  IF ~Truthy(keyphrase) \/ ~Truthy(passcode)
  THEN GetResponse(400, "keyphrase and passcode required", <<>>)
  ELSE IF backend = "pg" /\ ~storeUp
       THEN Rejected
       ELSE LET it == findItem(id, keyphrase)
            IN IF it = NoItem
               THEN GetResponse(404, "not found or invalid credentials", <<>>)
               ELSE IF ~verifyPasscode(it, passcode)
                    THEN GetResponse(404, "not found or invalid credentials", <<>>)
                    ELSE GetResponse(200, Undefined,
                           <<Disclosed(it, "content",
                                       IF it.type = "file" THEN <<keyphrase, passcode>>
                                       ELSE <<>>)>>)

\* app.get('/api/file/:id')
FileResponse(id, keyphrase, passcode) ==
  IF ~Truthy(keyphrase) \/ ~Truthy(passcode)
  THEN GetResponse(400, "keyphrase and passcode required", <<>>)
  ELSE IF backend = "pg" /\ ~storeUp
       THEN Rejected
       ELSE LET it == findItem(id, keyphrase)
            IN IF it = NoItem
               THEN GetResponse(404, "not found or invalid credentials", <<>>)
               ELSE IF ~verifyPasscode(it, passcode)
                    THEN GetResponse(404, "not found or invalid credentials", <<>>)
                    ELSE IF it.type # "file" \/ ~Truthy(it.filename)
                         THEN GetResponse(400, "item is not a file", <<>>)
                         ELSE GetResponse(200, Undefined, <<Disclosed(it, "bytes", <<>>)>>)

\* /api/items calls getAuthorizedItems once keyphrase and passcode are present
ItemsChecks(keyphrase, passcode) == Truthy(keyphrase) /\ Truthy(passcode)

\* the by-id handlers call verifyPasscode on the item they found
ByIdChecks(id, keyphrase, passcode) ==
  /\ Truthy(keyphrase) /\ Truthy(passcode)
  /\ ~(backend = "pg" /\ ~storeUp)
  /\ findItem(id, keyphrase) # NoItem

\* the record of a handler's call of the credential check with this passcode
credentialCheck(called, passcode) ==
  IF called /\ passcode \notin FourDigitStrings
  THEN checkedWith \cup {passcode} ELSE checkedWith

\* The response leaves the service; what a request leaves behind is its line
\* in the access log, written when the response has been sent.
GetItems(sent) ==
  /\ mig.pc # "boot"
  /\ \E c \in sent :
       /\ accessLog' = morgan(c[1], c[2], ItemsResponse(c[1], c[2]))
       /\ checkedWith' = credentialCheck(ItemsChecks(c[1], c[2]), c[2])
  /\ UNCHANGED <<backend, db, storeUp, mig, host, runs, dbBoot, prevRun, debug>>

GetItem(sent) ==
  /\ mig.pc # "boot"
  /\ \E id \in SentIds, c \in sent :
       /\ accessLog' = morgan(c[1], c[2], ItemResponse(id, c[1], c[2]))
       /\ checkedWith' = credentialCheck(ByIdChecks(id, c[1], c[2]), c[2])
  /\ UNCHANGED <<backend, db, storeUp, mig, host, runs, dbBoot, prevRun, debug>>

\* a download that removes the item it has served
GetFileConsuming(sent) ==
  /\ mig.pc # "boot"
  /\ \E id \in SentIds, c \in sent :
       LET res == FileResponse(id, c[1], c[2])
           other(x) == x.id # id
       IN /\ accessLog' = morgan(c[1], c[2], res)
          /\ checkedWith' = credentialCheck(ByIdChecks(id, c[1], c[2]), c[2])
          /\ db' = IF res.status = 200 THEN SelectSeq(db, other) ELSE db
  /\ UNCHANGED <<backend, storeUp, mig, host, runs, dbBoot, prevRun, debug>>

GetFile(sent) ==
  /\ mig.pc # "boot"
  /\ \E id \in SentIds, c \in sent :
       /\ accessLog' = morgan(c[1], c[2], FileResponse(id, c[1], c[2]))
       /\ checkedWith' = credentialCheck(ByIdChecks(id, c[1], c[2]), c[2])
  /\ UNCHANGED <<backend, db, storeUp, mig, host, runs, dbBoot, prevRun, debug>>

----------------------------------------------------------------------------
(* app.post('/debug/insert-test') of part_000 *)

\* the row of `INSERT INTO items(id,title,type,createdat)`: every other
\* column, keyphrase and passcodehash among them, is NULL
debugRow == Item("debug-1", Undefined, Undefined, NoHash, Undefined)

\* the handler up to the end of `await pool.query('INSERT ...')`; a rejected
\* query is answered with 500 from the catch
DebugInsert ==
  /\ backend = "pg"
  /\ debug = "idle"
  /\ IF storeUp
     THEN db' = Append(db, debugRow) /\ debug' = "inserted"
     ELSE db' = db /\ debug' = "done"
  /\ UNCHANGED <<backend, storeUp, mig, host, accessLog, runs, dbBoot, prevRun, checkedWith>>

\* `await pool.query('DELETE FROM items WHERE id = $1', [testId])` settles and
\* the handler responds; when the query is rejected the row stays
DebugDelete ==
  /\ debug = "inserted"
  /\ LET other(x) == x.id # debugRow.id
     IN db' = IF storeUp THEN SelectSeq(db, other) ELSE db
  /\ debug' = "done"
  /\ UNCHANGED <<backend, storeUp, mig, host, accessLog, runs, dbBoot, prevRun, checkedWith>>

----------------------------------------------------------------------------
(* Startup and the specifications *)

\* the process ends and is started again: requests in flight are gone and
\* the startup migration runs once more
Restart ==
  /\ mig.pc = "done"
  /\ runs < MaxRuns
  /\ runs' = runs + 1
  /\ prevRun' = [db |-> db, mig |-> mig]
  /\ dbBoot' = db
  /\ mig' = MigIdle
  /\ host' = [r \in Requests |-> HostIdle]
  /\ debug' = "idle"
  /\ UNCHANGED <<backend, db, storeUp, accessLog, checkedWith>>

\* credentials of a record found in the store: written by the version that
\* kept the passcode in plaintext, by the current one, or holding both fields
Legacy(n, p) == <<NoHash, p>>
Hashed(n, p) == <<bcryptHash(p, "s" \o ToString(n)), Undefined>>
Both(n, p) == <<bcryptHash(p, "s" \o ToString(n)), CHOOSE q \in AnyPasscodes : q # p>>

\* a record whose passcodeHash field is not a bcrypt hash string
Malformed(n, p) == <<MalformedHash, p>>

\* the n-th record of the store at startup
StoredItems(n) ==
  {Item("i" \o ToString(n), kp, Undefined, c[1], c[2]) :
     kp \in StoredKeyphrases,
     c \in {Legacy(n, p) : p \in StoredPasscodes} \cup {Hashed(n, p) : p \in StoredPasscodes}}

AnyItems(n) ==
  {Item("i" \o ToString(n), kp, Undefined, c[1], c[2]) :
     kp \in AnyKeyphrases,
     c \in {Legacy(n, p) : p \in AnyPasscodes} \cup {Hashed(n, p) : p \in AnyPasscodes}
           \cup {Both(n, p) : p \in AnyPasscodes}
           \cup {Malformed(n, p) : p \in AnyPasscodes \cup {Undefined}}}
  \cup {Item("i" \o ToString(n), "apple-river-sun", "photo.png", c[1], c[2]) :
          c \in {Legacy(n, "0042"), Hashed(n, "0042")}}

\* the stores of at most MaxStored records, the n-th drawn from ItemsAt(n)
StoresOver(ItemsAt(_)) ==
  LET ofLen[n \in 0..MaxStored] ==
        IF n = 0 THEN {<<>>}
        ELSE {Append(s, it) : s \in ofLen[n - 1], it \in ItemsAt(n)}
  IN UNION {ofLen[n] : n \in 0..MaxStored}

InitStores == StoresOver(StoredItems)

AnyStores == StoresOver(AnyItems)

\* the rows of the table of part_000 hold a passcodehash, never a plaintext
PgRows(stores) == {s \in stores : \A n \in 1..Len(s) : s[n].passcode = Undefined}

InitWith(stores) ==
  /\ backend \in {"file", "pg"}
  /\ db \in IF backend = "file" THEN stores ELSE PgRows(stores)
  /\ storeUp = TRUE
  /\ mig = IF backend = "file" THEN MigIdle ELSE [MigIdle EXCEPT !.pc = "done"]
  /\ host = [r \in Requests |-> HostIdle]
  /\ accessLog = {}
  /\ runs = 1
  /\ dbBoot = db
  /\ prevRun = [db |-> <<>>, mig |-> MigIdle]
  /\ debug = "idle"
  /\ checkedWith = {}

\* The service in one run: concurrent hosting requests, the credentialed
\* reads, the startup migration, and the failures of the store and the hasher
Init == InitWith(InitStores)

Next ==
  \/ StoreFault
  \/ StoreRecover
  \/ MigStart
  \/ MigHashDone
  \/ MigHashFail
  \/ \E r \in Requests : HostStart(r)
  \/ \E r \in Requests : HostHashDone(r)
  \/ \E r \in Requests : HostInsertDone(r)
  \/ DebugInsert
  \/ DebugDelete
  \/ GetItems(SentCredentials)
  \/ GetItem(SentCredentials)
  \/ GetFile(SentCredentials)

Spec == Init /\ [][Next]_vars

\* The store across process starts, for every store content: the startup
\* migration of each run and the credentialed reads, the store reachable and
\* the hasher working
InitMigrate == InitWith(AnyStores)

NextMigrate ==
  \/ MigStart
  \/ MigHashDone
  \/ Restart
  \/ GetItems(AnyCredentials)
  \/ GetItem(AnyCredentials)
  \/ GetFile(AnyCredentials)

SpecMigrate == InitMigrate /\ [][NextMigrate]_vars

\* The same with a hasher that can fail: bcrypt.hash of the migration
\* resolves or rejects, item by item
NextHashFault ==
  \/ MigStart
  \/ MigHashDone
  \/ MigHashFail
  \/ Restart
  \/ GetItems(AnyCredentials)
  \/ GetItem(AnyCredentials)
  \/ GetFile(AnyCredentials)

SpecHashFault == InitMigrate /\ [][NextHashFault]_vars

----------------------------------------------------------------------------
(* Authorization: the claims about getAuthorizedItems and the read endpoints *)

\* the positions of the stored items with this keyphrase that verify passcode
MatchingAt(items, keyphrase, passcode) ==
  {n \in 1..Len(items) : /\ items[n].keyphrase = keyphrase
                         /\ verifyPasscode(items[n], passcode)}

\* C1: for every keyphrase k and passcode p, getAuthorizedItems(k, p) returns
\* exactly the stored items whose keyphrase equals k character for character
\* and whose credential verifies p: each of them once, and nothing else.
AuthorizeReturnsExactMatches ==
  \A k \in ReqKeyphrases, p \in ReqPasscodes :
    LET out == getAuthorizedItems(k, p)
        at == MatchingAt(db, k, p)
    IN /\ Len(out) = Cardinality(at)
       /\ {out[n] : n \in 1..Len(out)} = {db[n] : n \in at}

\* two stored items whose keyphrases differ only in case and whose credentials
\* verify the same passcode: getAuthorizedItems returns one of them
AuthorizeSelects ==
  /\ mig.pc = "done"
  /\ \E n, m \in 1..Len(db), p \in ReqPasscodes :
       /\ db[n].keyphrase = "apple-river-sun" /\ db[m].keyphrase = "Apple-River-Sun"
       /\ verifyPasscode(db[n], p) /\ verifyPasscode(db[m], p)
       /\ getAuthorizedItems("apple-river-sun", p) = <<db[n]>>

\* a by-id request that names keyphrase and passcode and is not authorized:
\* no stored item has this id, this keyphrase and a credential verifying passcode
Denied(id, keyphrase, passcode) ==
  /\ Truthy(keyphrase) /\ Truthy(passcode)
  /\ ~\E n \in 1..Len(db) : /\ db[n].id = id
                            /\ n \in MatchingAt(db, keyphrase, passcode)

\* C6: on /api/items, /api/item/:id and /api/file/:id, all requests that fail
\* authorization get the same status and the same body, whether the keyphrase
\* matches no item, the passcode does not verify, or the id does not exist.
FailuresIndistinguishable ==
  \A k1 \in ReqKeyphrases, p1 \in ReqPasscodes, k2 \in ReqKeyphrases, p2 \in ReqPasscodes :
    /\ ( /\ Truthy(k1) /\ Truthy(p1) /\ MatchingAt(db, k1, p1) = {}
         /\ Truthy(k2) /\ Truthy(p2) /\ MatchingAt(db, k2, p2) = {} )
       => ItemsResponse(k1, p1) = ItemsResponse(k2, p2)
    /\ \A id1 \in ReqIds, id2 \in ReqIds :
         Denied(id1, k1, p1) /\ Denied(id2, k2, p2)
         => /\ ItemResponse(id1, k1, p1) = ItemResponse(id2, k2, p2)
            /\ FileResponse(id1, k1, p1) = FileResponse(id2, k2, p2)

\* a stored item is asked for with a wrong passcode, with a wrong keyphrase,
\* and an id that does not exist is asked for with valid credentials
EachFactorFails ==
  /\ mig.pc # "boot"
  /\ \E n \in 1..Len(db), k \in ReqKeyphrases, p \in ReqPasscodes, q \in ReqPasscodes :
       /\ db[n].id \in ReqIds
       /\ ~Denied(db[n].id, db[n].keyphrase, p) /\ Truthy(p)
       /\ Denied(db[n].id, db[n].keyphrase, q)
       /\ Denied(db[n].id, k, p)
       /\ Denied("nope", db[n].keyphrase, p)

----------------------------------------------------------------------------
(* Legacy Migration: the claims about runs in which the hasher and the store work *)

\* C9: a second run of migratePlainPasscodes after a run that completed
\* changes nothing in the store, and no run touches an item that already
\* holds a passcodeHash.
MigrationIdempotent ==
  /\ runs >= 2 => db = prevRun.db
  /\ \A n \in 1..Len(dbBoot) :
       dbBoot[n].passcodeHash # NoHash => n <= Len(db) /\ db[n] = dbBoot[n]

\* the second run has completed after a first run that rewrote the store
SecondRunCompleted ==
  /\ runs = 2 /\ mig.pc = "done"
  /\ prevRun.mig.changed
  /\ \E n \in 1..Len(db) : db[n].passcodeHash # NoHash /\ db[n].passcodeHash[2] = "m1"
  /\ \E n \in 1..Len(db) : db[n].passcodeHash # NoHash /\ db[n].passcodeHash[2] # "m1"

\* C10: a record holding only a plaintext passcode authorizes with that
\* passcode before the migration and after it, when it holds a bcrypt hash of
\* the passcode and no plaintext; and for every keyphrase and passcode
\* getAuthorizedItems returns the same ids on the store before and after.
MigrationPreservesAuthorization ==
  mig.pc = "done" =>
    /\ Len(db) = Len(dbBoot)
    /\ \A k \in ReqKeyphrases, p \in ReqPasscodes :
         Ids(authorizedIn(db, k, p)) = Ids(authorizedIn(dbBoot, k, p))
    /\ \A n \in 1..Len(dbBoot) :
         needsHash(dbBoot[n]) =>
           LET before == dbBoot[n]
               after == db[n]
           IN /\ before.id \in Ids(authorizedIn(dbBoot, before.keyphrase, before.passcode))
              /\ after.id = before.id
              /\ after.id \in Ids(authorizedIn(db, before.keyphrase, before.passcode))
              /\ bcryptCompare(before.passcode, after.passcodeHash)
              /\ after.passcode = Undefined

\* the first run has hashed a legacy record of a store that also holds a
\* record with the same keyphrase and another passcode
LegacyRecordMigrated ==
  /\ backend = "file" /\ runs = 1 /\ mig.pc = "done"
  /\ \E n, m \in 1..Len(dbBoot) :
       /\ needsHash(dbBoot[n]) /\ db[n].passcodeHash # NoHash
       /\ dbBoot[m].keyphrase = dbBoot[n].keyphrase
       /\ ~verifyPasscode(dbBoot[m], dbBoot[n].passcode)

----------------------------------------------------------------------------
(* createItem and the store: the claims about the service in one run *)

\* every operation that started has completed
AllCompleted ==
  /\ mig.pc = "done"
  /\ \A r \in Requests : host[r].pc \in {"idle", "done"}

\* C2: for an item created by POST /api/host that reported success with
\* (id, keyphrase, passcode), a later getAuthorizedItems(keyphrase, passcode)
\* on the readable store returns the item with that id.
CreatedItemAuthorizes ==
  \A r \in Requests :
    host[r].res.success /\ storeUp /\ AllCompleted
    => host[r].res.id \in Ids(getAuthorizedItems(host[r].res.keyphrase, host[r].res.passcode))

\* C3: for every interleaving of concurrent item creations and the startup
\* migration, once all of them have completed the store holds every item
\* whose creation reported success.
NoCreatedItemLost ==
  AllCompleted => \A r \in Requests : host[r].res.success => host[r].res.id \in Ids(db)

\* C4: when the insert of createItem fails, the request gets a failure
\* response that holds neither the generated passcode nor a share URL, and
\* the item is not in the store.
InsertFailureHidesPasscode ==
  \A r \in Requests :
    host[r].outcome = "insert-failed" =>
      /\ host[r].res.status = 500 /\ ~host[r].res.success
      /\ host[r].res.passcode # host[r].passcode
      /\ host[r].res.shareUrl = <<>>
      /\ host[r].id \notin Ids(db)

\* the write of the data file has failed after a passcode was generated
InsertFailed ==
  \E r \in Requests :
    /\ host[r].outcome = "insert-failed"
    /\ host[r].passcode \in {"0042", "1111"}
    /\ backend = "file"

\* C5: when hashing fails during createItem, the step that handles the failure
\* answers with a failure response and leaves the store unchanged; and no step
\* leaves in the store an item of a hosting request without a bcrypt hash of
\* the passcode generated for it.
HashFailureAborts ==
  [][ /\ \A r \in Requests :
           host[r].outcome # "hash-failed" /\ host'[r].outcome = "hash-failed"
           => /\ db' = db
              /\ host'[r].res.status = 500 /\ ~host'[r].res.success
              /\ host'[r].res.passcode = Undefined
      /\ \A r \in Requests, n \in 1..Len(db') :
           db'[n].id = host'[r].id
           => bcryptCompare(host'[r].passcode, db'[n].passcodeHash)
    ]_vars

\* a creation ended by a hash failure while the store holds an item
HashFailed ==
  \E r \in Requests :
    /\ host[r].outcome = "hash-failed"
    /\ host[r].res.status = 500
    /\ db # <<>>

\* C7: the plaintext passcode of a created item is in the creation response
\* only: no stored record holds it in plaintext and no log entry carries it.
PasscodeOnlyInCreationResponse ==
  \A r \in Requests :
    host[r].res.success =>
      /\ r \notin accessLog
      /\ \A n \in 1..Len(db) : db[n].id = host[r].id => db[n].passcode = Undefined

\* C8: a failed read of the store is not taken for an empty store: while the
\* store cannot be read, a request whose credentials match stored items is
\* not answered with the result of a store without items, and a creation
\* whose read failed does not go on to replace the items the store holds.
StoreFailurePropagates ==
  /\ ~storeUp =>
       \A k \in ReqKeyphrases, p \in ReqPasscodes :
         Truthy(k) /\ Truthy(p) /\ MatchingAt(db, k, p) # {}
         => ItemsResponse(k, p) # GetResponse(200, Undefined, <<>>)
  /\ \A r \in Requests : host[r].pc = "hashing" => host[r].readOk
  /\ Ids(dbBoot) \subseteq Ids(db)

----------------------------------------------------------------------------
(* Legacy Migration: the claims about failures, startup order and other writers *)

\* C11: a hashing failure during the migration stays with its item: when the
\* migration has completed, each record that was legacy at startup and whose
\* hashing failed is unchanged and still authorizes with its plaintext
\* passcode, and every other legacy record is stored with a hash of its
\* passcode and without the plaintext.
HashFailureIsolated ==
  mig.pc = "done" =>
    /\ Len(db) = Len(dbBoot)
    /\ \A n \in 1..Len(dbBoot) :
         needsHash(dbBoot[n]) =>
           IF dbBoot[n].id \in mig.failed
           THEN /\ db[n] = dbBoot[n]
                /\ db[n].id \in Ids(authorizedIn(db, db[n].keyphrase, db[n].passcode))
           ELSE /\ bcryptCompare(dbBoot[n].passcode, db[n].passcodeHash)
                /\ db[n].passcode = Undefined
                /\ db[n].id \in Ids(authorizedIn(db, db[n].keyphrase, dbBoot[n].passcode))

\* the hashing of one legacy record failed and a later legacy record of the
\* same store was migrated and persisted
MigrationContinued ==
  /\ mig.pc = "done"
  /\ \E n, m \in 1..Len(dbBoot) :
       /\ n < m
       /\ needsHash(dbBoot[n]) /\ dbBoot[n].id \in mig.failed
       /\ needsHash(dbBoot[m]) /\ db[m].passcodeHash # NoHash

\* C12: the startup migration has completed before a request that reads the
\* store is handled: while the migration is in progress no hosting request
\* has been taken up.
MigrationBeforeServing ==
  mig.pc # "done" => \A r \in Requests : host[r].pc = "idle"

\* C13: the migration's update of a record is not undone by another writer:
\* a stored record that holds a passcodeHash and no plaintext passcode is
\* stored unchanged after every step.
MigrationNotUndone ==
  [][ \A n \in 1..Len(db) :
        db[n].passcodeHash # NoHash /\ db[n].passcode = Undefined
        => \E m \in 1..Len(db') : db'[m] = db[n]
    ]_vars

----------------------------------------------------------------------------
(* The by-id endpoints *)

\* C20: /api/item/:id and /api/file/:id disclose an item only to a request
\* whose keyphrase equals that item's keyphrase and whose passcode verifies
\* against that item's credential; a request for a stored id with another
\* keyphrase or passcode, also with the valid credentials of another item,
\* gets 404.
ByIdDisclosesOwnItemOnly ==
  \A id \in ReqIds, k \in ReqKeyphrases, p \in ReqPasscodes :
    LET item == ItemResponse(id, k, p)
        file == FileResponse(id, k, p)
        own(d) == \E n \in MatchingAt(db, k, p) : db[n].id = id /\ d.id = id
    IN /\ \A j \in 1..Len(item.items) : own(item.items[j])
       /\ \A j \in 1..Len(file.items) : own(file.items[j])
       /\ Denied(id, k, p) /\ id \in Ids(db)
          => item.status = 404 /\ item.items = <<>> /\ file.status = 404 /\ file.items = <<>>

\* two stored items: the credentials that open the first are sent with the id
\* of the second, whose credential verifies the same passcode
OtherItemsCredentials ==
  /\ mig.pc # "boot"
  /\ \E n, m \in 1..Len(db), p \in ReqPasscodes :
       /\ n # m
       /\ db[n].id \in ReqIds /\ db[m].id \in ReqIds
       /\ ItemResponse(db[n].id, db[n].keyphrase, p).status = 200
       /\ verifyPasscode(db[m], p)
       /\ Denied(db[m].id, db[n].keyphrase, p)

\* C19: authorization is read-only: every step of /api/items, /api/item/:id
\* and /api/file/:id, whatever its outcome, leaves the store as it was; the
\* store changes only in a step of a hosting request, of the migration or of
\* the insert test.
ReadsLeaveStoreUnchanged ==
  [][ /\ GetItems(AnyCredentials) \/ GetItem(AnyCredentials) \/ GetFile(AnyCredentials)
         => db' = db
      /\ db' # db => host' # host \/ mig' # mig \/ debug' # debug
    ]_vars

\* a created item was read with its credentials and is in the store
CreatedItemWasRead ==
  \E r \in accessLog :
    /\ host[r].id \in Ids(db)
    /\ ItemsResponse(host[r].keyphrase, host[r].passcode).items # <<>>

----------------------------------------------------------------------------
(* verifyPasscode on stored hashes that are not bcrypt hashes *)

\* C18: a record whose stored hash is malformed verifies no passcode, and
\* its presence among the candidates raises no error: getAuthorizedItems
\* leaves it out and returns the other records that match.
MalformedHashYieldsFalse ==
  \A k \in ReqKeyphrases, p \in ReqPasscodes :
    LET out == getAuthorizedItems(k, p)
        bad == {n \in 1..Len(db) : /\ db[n].passcodeHash # NoHash
                                   /\ ~wellFormedHash(db[n].passcodeHash)}
    IN /\ \A n \in bad : ~verifyPasscode(db[n], p) /\ db[n].id \notin Ids(out)
       /\ Ids(out) = {db[n].id : n \in MatchingAt(db, k, p) \ bad}

\* a record with a malformed hash shares its keyphrase with a record that
\* verifies the passcode, and that record is what getAuthorizedItems returns
MalformedAmongCandidates ==
  /\ mig.pc = "done"
  /\ \E n, m \in 1..Len(db), p \in ReqPasscodes :
       /\ db[n].passcodeHash = MalformedHash
       /\ db[m].keyphrase = db[n].keyphrase
       /\ getAuthorizedItems(db[n].keyphrase, p) = <<db[m]>>

----------------------------------------------------------------------------
(* createItem: the keyphrase of the item *)

\* the phrases of three words of the list joined by hyphens
ThreeWordPhrases ==
  {words[a] \o "-" \o words[b] \o "-" \o words[c] :
     a \in 1..Len(words), b \in 1..Len(words), c \in 1..Len(words)}

\* the hosting requests that hold their request body: between the start of
\* the handler and its response
InFlight == {r \in Requests : host[r].pc \in {"hashing", "inserting"}}

\* C17 as stated: the item's keyphrase is the supplied keyphrase verbatim
\* whenever one is supplied and non-empty, and otherwise three words of the
\* list joined by hyphens.
KeyphraseVerbatim ==
  \A r \in InFlight :
    IF Truthy(host[r].supplied)
    THEN host[r].keyphrase = host[r].supplied
    ELSE host[r].keyphrase \in ThreeWordPhrases

\* C17: the item's keyphrase is the supplied keyphrase with the whitespace
\* at its ends removed whenever that is non-empty, whatever keyphrases the
\* store holds; otherwise it is three words of the list joined by hyphens;
\* and the item is stored with the keyphrase chosen for it.
KeyphraseTrimmedOrGenerated ==
  /\ \A r \in InFlight :
       IF Truthy(host[r].supplied) /\ trim(host[r].supplied) # ""
       THEN host[r].keyphrase = trim(host[r].supplied)
       ELSE host[r].keyphrase \in ThreeWordPhrases
  /\ \A r \in Requests, n \in 1..Len(db) :
       db[n].id = host[r].id => db[n].keyphrase = host[r].keyphrase

\* a request supplies, with spaces around it, the keyphrase of an item that
\* is already stored
SuppliedKeyphraseInUse ==
  \E r \in InFlight, q \in Requests :
    /\ host[r].supplied = " Apple-River-Sun "
    /\ host[q].outcome = "created"
    /\ \E n \in 1..Len(db) : db[n].id = host[q].id /\ db[n].keyphrase = host[r].keyphrase

----------------------------------------------------------------------------
(* The credential fields of the stored items *)

\* C14: in every state of the store, after any sequence of startup
\* migration, hosting and debug requests, every stored item has a
\* passcodeHash or a plaintext passcode.
NeverNeitherCredential ==
  \A n \in 1..Len(db) : db[n].passcodeHash # NoHash \/ Truthy(db[n].passcode)

----------------------------------------------------------------------------
(* The format of the passcode *)

\* C16: the request handlers call getAuthorizedItems and verifyPasscode only
\* with a passcode of exactly four decimal digits: no handler has passed any
\* other passcode to the credential check.
PasscodeFormatEnforced ==
  \A p \in checkedWith : p \in FourDigitStrings

----------------------------------------------------------------------------
(* verifyPasscode: which credential of the item decides *)

\* the passcodes a request can carry, the malformed ones included
VerifyPasscodes == ReqPasscodes \cup {c[2] : c \in AnyCredentials}

\* the item without its credential fields
stripped(it) == [it EXCEPT !.passcodeHash = NoHash, !.passcode = Undefined]

\* C21: verifyPasscode dispatches on the credential present and fails
\* closed. For an item with a passcodeHash the result is that of comparing
\* the passcode with the hash, whatever the plaintext field of the item
\* holds; for an item with a plaintext passcode only it is string equality
\* with that passcode; for an item with neither credential, and for no
\* item, it is false for every passcode.
VerifyDispatchesFailClosed ==
  /\ \A n \in 1..Len(db), p \in VerifyPasscodes :
       LET it == db[n]
       IN /\ it.passcodeHash # NoHash =>
               /\ verifyPasscode(it, p) = bcryptCompare(String(p), it.passcodeHash)
               /\ \A q \in AnyPasscodes \cup {Undefined} :
                    verifyPasscode([it EXCEPT !.passcode = q], p) = verifyPasscode(it, p)
          /\ it.passcodeHash = NoHash /\ Truthy(it.passcode) =>
               verifyPasscode(it, p) = (String(p) = String(it.passcode))
          /\ it.passcodeHash = NoHash /\ ~Truthy(it.passcode) =>
               ~verifyPasscode(it, p)
          /\ ~verifyPasscode(stripped(it), p)
  /\ \A p \in VerifyPasscodes :
       ~verifyPasscode(NoItem, p) /\ ~verifyPasscode(debugRow, p)

\* requests have been served from a store that holds an item with a hash and
\* a plaintext of another passcode, and an item with a plaintext only: the
\* first opens with the hashed passcode and not with its plaintext, the
\* second opens with its plaintext, and without its credential opens with
\* no passcode
BothCredentialsServed ==
  /\ checkedWith # {}
  /\ \E n, m \in 1..Len(db) :
       /\ db[n].passcodeHash # NoHash /\ Truthy(db[n].passcode)
       /\ db[n].passcode \in ReqPasscodes
       /\ ItemResponse(db[n].id, db[n].keyphrase, db[n].passcode).status = 404
       /\ \E p \in ReqPasscodes : ItemResponse(db[n].id, db[n].keyphrase, p).status = 200
       /\ db[m].passcodeHash = NoHash /\ Truthy(db[m].passcode)
       /\ ItemResponse(db[m].id, db[m].keyphrase, db[m].passcode).status = 200
       /\ \A p \in VerifyPasscodes : ~verifyPasscode(stripped(db[m]), p)

====
